---- MODULE Spec2Model ----
(***************************************************************************)
(* Model of yurtici_v4.py: the snapshot extraction, the classifier, the   *)
(* readability guard and the polling loop of main().                     *)
(*                                                                         *)
(* Text is a sequence of one-character strings.  The Turkish letters are  *)
(* written with two-character tokens: "I." (capital dotted I), "i-"       *)
(* (dotless i), "s," "S," (s cedilla), "g~", "u:", "o:", "c,".            *)
(* An optional value is a sequence: None is <<>>, Some(x) is <<x>>.       *)
(***************************************************************************)
EXTENDS Integers, Sequences, FiniteSets, TLC

None == <<>>
Some(x) == <<x>>
Val(o) == o[1]

(***************************************************************************)
(* Text primitives (Python str methods used by the program).              *)
(***************************************************************************)
Lower == <<"a","b","c","d","e","f","g","h","i","j","k","l","m",
           "n","o","p","q","r","s","t","u","v","w","x","y","z">>
Upper == <<"A","B","C","D","E","F","G","H","I","J","K","L","M",
           "N","O","P","Q","R","S","T","U","V","W","X","Y","Z">>
Digits == <<"0","1","2","3","4","5","6","7","8","9">>

\* str.upper() on one character
UpperChar(c) ==
    IF \E i \in 1..Len(Lower) : Lower[i] = c
    THEN Upper[CHOOSE i \in 1..Len(Lower) : Lower[i] = c]
    ELSE c

\* unicodedata.normalize("NFKD", c) with the combining marks removed
FoldChar(c) ==
    CASE c = "I." -> "I"
      [] c = "s," -> "s"
      [] c = "S," -> "S"
      [] c = "g~" -> "g"
      [] c = "u:" -> "u"
      [] c = "o:" -> "o"
      [] c = "c," -> "c"
      [] OTHER -> c

\* .replace("I.", "I").replace("i-", "I") on one character
ReplaceChar(c) == IF c = "I." \/ c = "i-" THEN "I" ELSE c

\* "".join(... for ch in s) of each of the three per-character steps
FoldAll(s) == [i \in 1..Len(s) |-> FoldChar(s[i])]
ReplaceAll(s) == [i \in 1..Len(s) |-> ReplaceChar(s[i])]
UpperAll(s) == [i \in 1..Len(s) |-> UpperChar(s[i])]

RECURSIVE LStrip(_)
LStrip(s) == IF s # <<>> /\ Head(s) = " " THEN LStrip(Tail(s)) ELSE s

RECURSIVE RStrip(_)
RStrip(s) ==
    IF s # <<>> /\ s[Len(s)] = " " THEN RStrip(SubSeq(s, 1, Len(s) - 1)) ELSE s

\* str.strip()
Strip(s) == RStrip(LStrip(s))

\* " ".join(s.split())
RECURSIVE JoinSplit(_)
JoinSplit(s) ==
    IF s = <<>> THEN <<>>
    ELSE IF Head(s) = " "
         THEN LET r == LStrip(s) IN
              IF r = <<>> THEN <<>> ELSE <<" ">> \o JoinSplit(r)
         ELSE <<Head(s)>> \o JoinSplit(Tail(s))

\* needle in hay
Contains(hay, needle) ==
    \E i \in 0..(Len(hay) - Len(needle)) :
        SubSeq(hay, i + 1, i + Len(needle)) = needle

IsDigit(c) == \E i \in 1..Len(Digits) : Digits[i] = c
DigitVal(c) == (CHOOSE i \in 1..Len(Digits) : Digits[i] = c) - 1

\* str.isdigit()
IsDigitStr(s) == s # <<>> /\ \A i \in 1..Len(s) : IsDigit(s[i])

RECURSIVE DigitsVal(_)
DigitsVal(s) ==
    IF s = <<>> THEN 0
    ELSE 10 * DigitsVal(SubSeq(s, 1, Len(s) - 1)) + DigitVal(s[Len(s)])

\* int(s): None when int() raises ValueError
PyInt(s) ==
    LET t == Strip(s)
        signed == t # <<>> /\ (Head(t) = "-" \/ Head(t) = "+")
        d == IF signed THEN Tail(t) ELSE t
    IN  IF ~IsDigitStr(d) THEN None
        ELSE IF signed /\ Head(t) = "-" THEN Some(0 - DigitsVal(d))
        ELSE Some(DigitsVal(d))

RECURSIVE NatStr(_)
NatStr(n) ==
    IF n < 10 THEN <<Digits[n + 1]>>
    ELSE NatStr(n \div 10) \o <<Digits[(n % 10) + 1]>>

\* str(n) of an int
IntStr(n) == IF n < 0 THEN <<"-">> \o NatStr(0 - n) ELSE NatStr(n)

\* norm_tr: strip, NFKD without combining marks, dotted/dotless I, collapse, upper
norm_tr(s) == UpperAll(JoinSplit(LStrip(ReplaceAll(FoldAll(Strip(s))))))

(***************************************************************************)
(* Snapshot and its key.                                                   *)
(***************************************************************************)
Snapshot(status, step, not_found) ==
    [status |-> status, step |-> step, not_found |-> not_found]

\* faulty variant: no separator between status and step
key_noseparator(snap) ==
    snap.status
    \o (IF snap.step # None THEN IntStr(Val(snap.step)) ELSE <<>>)
    \o <<"|", "N", "F">>
    \o (IF snap.not_found THEN <<"1">> ELSE <<"0">>)

key(snap) ==
    snap.status \o <<"|">>
    \o (IF snap.step # None THEN IntStr(Val(snap.step)) ELSE <<>>)
    \o <<"|", "N", "F">>
    \o (IF snap.not_found THEN <<"1">> ELSE <<"0">>)

(***************************************************************************)
(* Phrases the program searches for.                                      *)
(***************************************************************************)
W_TESLIM_EDILDI == <<"T","E","S","L","I","M"," ","E","D","I","L","D","I">>
W_TESLIM_EDILDI_TR == <<"T","E","S","L","I.","M"," ","E","D","I.","L","D","I.">>
W_VARIS_BIRIMINDE == <<"V","A","R","I","S"," ","B","I","R","I","M","I","N","D","E">>
W_VARIS_BIRIMINDE_TR ==
    <<"V","A","R","I","S,"," ","B","I.","R","I.","M","I.","N","D","E">>
W_TASIMA == <<"T","A","S","I","M","A">>
W_TASIMA_TR == <<"T","A","S,","I","M","A">>
W_TRANSFER == <<"T","R","A","N","S","F","E","R">>
W_SEVK == <<"S","E","V","K">>
W_YOLDA == <<"Y","O","L","D","A">>
W_KARGO_BULUNAMADI ==
    <<"K","A","R","G","O"," ","B","U","L","U","N","A","M","A","D","I">>
W_GONDERI_KODUYLA ==
    <<"G","O","N","D","E","R","I"," ","K","O","D","U","Y","L","A"," ">>
    \o <<"B","I","R"," ">> \o W_KARGO_BULUNAMADI
W_BIR_KARGO_BULUNAMADI == <<"B","I","R"," ">> \o W_KARGO_BULUNAMADI

\* the test of lines 90 and 267 on the normalized visible text
not_found_text(txt) ==
    \/ Contains(txt, W_KARGO_BULUNAMADI)
    \/ Contains(txt, W_GONDERI_KODUYLA)
    \/ Contains(txt, W_BIR_KARGO_BULUNAMADI)

(***************************************************************************)
(* classify, looks_unreadable, should_stop.                               *)
(***************************************************************************)
\* faulty variant: the step is looked at before the status text
classify_step_first(snap) ==
    LET st == norm_tr(snap.status) IN
    IF snap.not_found THEN "NOT_FOUND"
    ELSE IF snap.step # None /\ Val(snap.step) >= 4 THEN "TESLIM"
    ELSE IF snap.step # None /\ Val(snap.step) >= 3 THEN "VARDI"
    ELSE IF snap.step # None /\ Val(snap.step) >= 2 THEN "YOLDA"
    ELSE IF Contains(st, W_TESLIM_EDILDI) THEN "TESLIM"
    ELSE IF Contains(st, W_VARIS_BIRIMINDE) THEN "VARDI"
    ELSE IF \E k \in {W_TASIMA, W_TRANSFER, W_SEVK, W_YOLDA} : Contains(st, k)
         THEN "YOLDA"
    ELSE "UNKNOWN"

classify(snap) ==
    LET st == norm_tr(snap.status) IN
    IF snap.not_found THEN "NOT_FOUND"
    ELSE IF Contains(st, W_TESLIM_EDILDI) \/ Contains(st, W_TESLIM_EDILDI_TR)
         THEN "TESLIM"
    ELSE IF Contains(st, W_VARIS_BIRIMINDE) \/ Contains(st, W_VARIS_BIRIMINDE_TR)
         THEN "VARDI"
    ELSE IF \E k \in {W_TASIMA, W_TASIMA_TR, W_TRANSFER, W_SEVK, W_YOLDA} :
                Contains(st, k)
         THEN "YOLDA"
    ELSE IF snap.step # None /\ Val(snap.step) >= 4 THEN "TESLIM"
    ELSE IF snap.step # None /\ Val(snap.step) >= 3 THEN "VARDI"
    ELSE IF snap.step # None /\ Val(snap.step) >= 2 THEN "YOLDA"
    ELSE "UNKNOWN"

\* set(s) <= {"*"}
OnlyStars(s) == \A i \in 1..Len(s) : s[i] = "*"

\* faulty variant: a markup that holds a marker is taken as readable
looks_unreadable_markup_first(snap, h) ==
    LET s == Strip(snap.status) IN
    IF snap.not_found THEN FALSE
    ELSE IF "four-pack" \in h \/ "shipmentStatus" \in h THEN FALSE
    ELSE s = <<>> \/ OnlyStars(s) \/ snap.step = None \/ snap.step = Some(0)

\* faulty variant: not_found is looked at after the placeholder test
looks_unreadable_notfound_last(snap, html) ==
    LET s == Strip(snap.status) IN
    IF s = <<>> \/ OnlyStars(s) THEN TRUE
    ELSE IF snap.not_found THEN FALSE
    ELSE IF (snap.step = None \/ snap.step = Some(0))
            /\ "four-pack" \notin html /\ "shipmentStatus" \notin html
         THEN TRUE
    ELSE FALSE

\* html is the set of the marker substrings the markup contains
looks_unreadable(snap, html) ==
    LET s == Strip(snap.status) IN
    IF snap.not_found THEN FALSE
    ELSE IF s = <<>> \/ OnlyStars(s) THEN TRUE
    ELSE IF (snap.step = None \/ snap.step = Some(0))
            /\ "four-pack" \notin html /\ "shipmentStatus" \notin html
         THEN TRUE
    ELSE FALSE

\* faulty variant: the target must be matched exactly
should_stop_exact(current, target) == current = target

should_stop(current, target) ==
    IF target = "YOLDA" THEN FALSE
    ELSE IF target = "TESLIM" THEN current = "TESLIM"
    ELSE current \in {"VARDI", "TESLIM"}

(***************************************************************************)
(* The remote page.  statusEl is the text of #shipmentStatus (None when    *)
(* the element is absent), four says whether #four-pack exists, dataStep   *)
(* is its data-step attribute (None when absent), body is the other        *)
(* visible text of the document.                                           *)
(***************************************************************************)
Page(statusEl, four, dataStep, body) ==
    [statusEl |-> statusEl, four |-> four, dataStep |-> dataStep, body |-> body]

\* the marker substrings the markup of a page contains
markup(page) ==
    (IF page.statusEl # None THEN {"shipmentStatus"} ELSE {})
    \cup (IF page.four THEN {"four-pack"} ELSE {})

\* the visible text of the whole document
visible_text(page) ==
    page.body \o <<" ">> \o (IF page.statusEl # None THEN Val(page.statusEl) ELSE <<>>)

extract_snapshot_requests(page) ==
    LET status == IF page.statusEl # None THEN Strip(Val(page.statusEl)) ELSE <<>>
        step == IF page.four /\ page.dataStep # None
                THEN PyInt(Strip(Val(page.dataStep))) ELSE None
        not_found == not_found_text(norm_tr(visible_text(page)))
    IN  Snapshot(status, step, not_found)

\* lines 229-234: data-step is "2", "3" or "4"
step_ok(page) ==
    /\ page.four /\ page.dataStep # None
    /\ Strip(Val(page.dataStep)) \in {<<"2">>, <<"3">>, <<"4">>}

\* lines 237-247: the status text is neither empty nor all "*"
status_ok(page) ==
    /\ page.statusEl # None
    /\ Strip(Val(page.statusEl)) # <<>>
    /\ ~OnlyStars(Strip(Val(page.statusEl)))

\* lines 250-253: the wait for step_ok or status_ok ends by the condition ("ok")
\* or by its TimeoutException, which is swallowed ("timeout")
readiness_poll(page) == IF step_ok(page) \/ status_ok(page) THEN "ok" ELSE "timeout"

\* the final read of fetch_selenium (lines 256-269) on the rendered page
fetch_selenium(page) ==
    LET status == IF page.statusEl # None THEN Val(page.statusEl) ELSE <<>>
        step_raw == IF page.four /\ page.dataStep # None
                    THEN Val(page.dataStep) ELSE <<>>
        step == IF IsDigitStr(Strip(step_raw))
                THEN Some(DigitsVal(Strip(step_raw))) ELSE None
        not_found == not_found_text(norm_tr(visible_text(page)))
    IN  Snapshot(Strip(status), step, not_found)

T_Stars == <<"*","*","*">>
T_Yolda == <<"Y","o","l","d","a">>
T_Varis == <<"V","a","r","i-","s,"," ","B","i","r","i","m","i","n","d","e">>
T_Teslim == <<"T","e","s","l","i","m"," ","E","d","i","l","d","i">>
T_Hazir == <<"H","a","z","i-","r","l","a","n","i-","y","o","r">>
T_Bulunamadi == <<"K","a","r","g","o"," ","b","u","l","u","n","a","m","a","d","i-">>

\* the pages the tracking endpoint is observed to serve
Pages ==
    { Page(None, FALSE, None, <<>>),
      Page(Some(T_Stars), TRUE, Some(<<"0">>), <<>>),
      Page(Some(T_Yolda), TRUE, Some(<<"2">>), <<>>),
      Page(Some(T_Varis), TRUE, Some(<<"3">>), <<>>),
      Page(Some(T_Teslim), TRUE, Some(<<"4">>), <<>>),
      Page(Some(T_Teslim), TRUE, Some(<<"2">>), <<>>),
      Page(Some(T_Hazir), TRUE, None, <<>>),
      Page(Some(T_Hazir), TRUE, Some(<<"3">>), <<>>),
      Page(None, FALSE, None, T_Bulunamadi),
      Page(Some(T_Teslim), TRUE, Some(<<"4">>), T_Bulunamadi) }

\* what fetch_requests + extract_snapshot_requests can return: (snap, html)
RequestsReads ==
    { [snap |-> extract_snapshot_requests(p), html |-> markup(p)] : p \in Pages }

\* what fetch_selenium can return: (snap, html)
SeleniumReads ==
    { [snap |-> fetch_selenium(p), html |-> markup(p), poll |-> readiness_poll(p)] :
        p \in Pages }

(***************************************************************************)
(* main(): the polling loop.                                               *)
(***************************************************************************)
MaxCycles == 3

Modes == {"auto", "requests", "selenium"}
Targets == {"YOLDA", "VARDI", "TESLIM"}

VARIABLES
    ns,            \* the parsed arguments: mode, target, stop, tts, mp3, debug
    driver,        \* "None", "open" (a session is held) or "quit" (a handle already quit)
    nlive,         \* browser sessions created and not yet quit
    last_key,      \* None or Some(key)
    said_initial,
    snap,          \* None or Some(Snapshot) of the cycle
    html,          \* the markers the cycle's markup contains
    pc,            \* the call main() is in or about to make: "top" (fetch_requests),
                   \* "make", "remake" (_make_driver), "sel1", "sel2" (fetch_selenium),
                   \* "sleep" (line 449), "exit" (after break), "done", "crashed"
    cycle,         \* cycles started
    out,           \* what the cycle has logged and triggered, in order
    state,         \* the cycle's classified state, "-" before classify
    via,           \* "requests" or "selenium": where the cycle's snapshot came from
    light,         \* None or Some([snap, html]): the cycle's lightweight read
    escalated,     \* in automatic mode, fetch_selenium has returned a snapshot
    last_snap,     \* None or Some(Snapshot): the last snapshot the loop reacted to
    attempts,      \* calls of fetch_selenium the cycle has made
    fs,            \* how the cycle's last call of fetch_selenium ended, "-" before it
    call           \* a call of one of the pure functions: its arguments and result

vars == <<ns, driver, nlive, last_key, said_initial, snap, html, pc, cycle, out,
          state, via, light, escalated, last_snap, attempts, fs, call>>

Ev(cond, e) == IF cond THEN <<e>> ELSE <<>>

Init ==
    /\ ns \in [mode : Modes, target : Targets, stop : BOOLEAN, tts : BOOLEAN,
                mp3 : BOOLEAN, debug : BOOLEAN]
    /\ driver = "None"
    /\ nlive = 0
    /\ last_key = None
    /\ said_initial = FALSE
    /\ snap = None
    /\ html = {}
    /\ pc = "top"
    /\ cycle = 0
    /\ out = <<>>
    /\ state = "-"
    /\ via = "-"
    /\ light = None
    /\ escalated = FALSE
    /\ last_snap = None
    /\ attempts = 0
    /\ fs = "-"
    /\ call = [fn |-> "-"]

\* the word spoken for the first state (line 412)
initial_word(st) ==
    IF st = "TESLIM" THEN "SAY_teslim"
    ELSE IF st = "VARDI" THEN "SAY_vardi" ELSE "SAY_yolda"

\* the word spoken for VARDI / TESLIM (lines 420, 432-435)
state_word(st) == IF st = "TESLIM" THEN "SAY_teslim" ELSE "SAY_vardi"

\* faulty variant: the first snapshot plays the alert whether or not the target is met
first_cycle_alert_always(a, said, sn, st) ==
    LET hit == a.stop /\ should_stop(st, a.target) IN
    [ state |-> st,
      last_key |-> Some(key(sn)),
      said_initial |-> said \/ a.tts,
      out |-> <<"LOG_ILK">>
              \o Ev(a.tts /\ ~said, initial_word(st))
              \o Ev(a.mp3, "MP3")
              \o Ev(hit /\ a.tts /\ st \in {"VARDI", "TESLIM"}, state_word(st))
              \o Ev(hit, "LOG_HEDEF_ZATEN"),
      brk |-> hit ]

\* lines 408-422: the first accepted snapshot
first_cycle(a, said, sn, st) ==
    LET hit == a.stop /\ should_stop(st, a.target) IN
    [ state |-> st,
      last_key |-> Some(key(sn)),
      said_initial |-> said \/ a.tts,
      out |-> <<"LOG_ILK">>
              \o Ev(a.tts /\ ~said, initial_word(st))
              \o Ev(hit /\ a.mp3, "MP3")
              \o Ev(hit /\ a.tts /\ st \in {"VARDI", "TESLIM"}, state_word(st))
              \o Ev(hit, "LOG_HEDEF_ZATEN"),
      brk |-> hit ]

\* faulty variant: a change never ends the loop
later_cycle_no_stop(a, lk, said, sn, st) ==
    IF key(sn) # Val(lk)
    THEN [ state |-> st,
           last_key |-> Some(key(sn)),
           said_initial |-> said,
           out |-> <<"LOG_DEGISTI">>
                   \o Ev(a.mp3, "MP3")
                   \o Ev(a.tts /\ st \in {"VARDI", "TESLIM"}, state_word(st)),
           brk |-> FALSE ]
    ELSE [ state |-> st, last_key |-> lk, said_initial |-> said,
           out |-> <<"LOG_AYNI">>, brk |-> FALSE ]

\* faulty variant: every later snapshot counts as a change
later_cycle_always_changed(a, lk, said, sn, st) ==
    LET hit == a.stop /\ should_stop(st, a.target) IN
    [ state |-> st,
      last_key |-> Some(key(sn)),
      said_initial |-> said,
      out |-> <<"LOG_DEGISTI">>
              \o Ev(a.mp3, "MP3")
              \o Ev(a.tts /\ st \in {"VARDI", "TESLIM"}, state_word(st))
              \o Ev(hit, "LOG_HEDEFE_ULASTI"),
      brk |-> hit ]

\* faulty variant: a change is spoken before the alert is played
later_cycle_speech_first(a, lk, said, sn, st) ==
    LET hit == a.stop /\ should_stop(st, a.target) IN
    IF key(sn) # Val(lk)
    THEN [ state |-> st,
           last_key |-> Some(key(sn)),
           said_initial |-> said,
           out |-> <<"LOG_DEGISTI">>
                   \o Ev(a.tts /\ st \in {"VARDI", "TESLIM"}, state_word(st))
                   \o Ev(a.mp3, "MP3")
                   \o Ev(hit, "LOG_HEDEFE_ULASTI"),
           brk |-> hit ]
    ELSE [ state |-> st, last_key |-> lk, said_initial |-> said,
           out |-> <<"LOG_AYNI">>, brk |-> FALSE ]

\* faulty variant: a change is spoken whatever the state is
later_cycle_speaks_all(a, lk, said, sn, st) ==
    LET hit == a.stop /\ should_stop(st, a.target) IN
    IF key(sn) # Val(lk)
    THEN [ state |-> st,
           last_key |-> Some(key(sn)),
           said_initial |-> said,
           out |-> <<"LOG_DEGISTI">>
                   \o Ev(a.mp3, "MP3")
                   \o Ev(a.tts, initial_word(st))
                   \o Ev(hit, "LOG_HEDEFE_ULASTI"),
           brk |-> hit ]
    ELSE [ state |-> st, last_key |-> lk, said_initial |-> said,
           out |-> <<"LOG_AYNI">>, brk |-> FALSE ]

\* lines 423-441: a later snapshot
later_cycle(a, lk, said, sn, st) ==
    LET hit == a.stop /\ should_stop(st, a.target) IN
    IF key(sn) # Val(lk)
    THEN [ state |-> st,
           last_key |-> Some(key(sn)),
           said_initial |-> said,
           out |-> <<"LOG_DEGISTI">>
                   \o Ev(a.mp3, "MP3")
                   \o Ev(a.tts /\ st \in {"VARDI", "TESLIM"}, state_word(st))
                   \o Ev(hit, "LOG_HEDEFE_ULASTI"),
           brk |-> hit ]
    ELSE [ state |-> st, last_key |-> lk, said_initial |-> said,
           out |-> <<"LOG_AYNI">>, brk |-> FALSE ]

\* faulty variant: the first snapshot is taken as baseline before not-found is looked at
react_baseline_first(a, lk, said, sn) ==
    IF lk = None THEN first_cycle(a, said, sn, classify(sn))
    ELSE IF classify(sn) = "NOT_FOUND"
    THEN [ state |-> "NOT_FOUND", last_key |-> lk, said_initial |-> said,
           out |-> <<"LOG_NOT_FOUND">>, brk |-> TRUE ]
    ELSE later_cycle(a, lk, said, sn, classify(sn))

\* lines 400-441: classify the snapshot and react to it
react(a, lk, said, sn) ==
    IF classify(sn) = "NOT_FOUND"
    THEN [ state |-> "NOT_FOUND", last_key |-> lk, said_initial |-> said,
           out |-> <<"LOG_NOT_FOUND">>, brk |-> TRUE ]
    ELSE IF lk = None THEN first_cycle(a, said, sn, classify(sn))
    ELSE later_cycle(a, lk, said, sn, classify(sn))

\* lines 395-441 once the cycle has its snapshot sn, with o logged so far
React(sn, o) ==
    IF sn = None
    THEN /\ out' = o \o <<"LOG_HATA_SNAPSHOT">>
         /\ pc' = "top"
         /\ state' = "-"
         /\ UNCHANGED <<last_key, said_initial, last_snap>>
    ELSE \E r \in {react(ns, last_key, said_initial, Val(sn))} :
         /\ state' = r.state
         /\ last_key' = r.last_key
         /\ said_initial' = r.said_initial
         /\ out' = o \o r.out
         /\ pc' = IF r.brk THEN "exit" ELSE "sleep"
         /\ last_snap' = IF r.state = "NOT_FOUND" THEN last_snap ELSE sn

\* faulty variant: the handler leaves the loop
OnException_break(o) ==
    /\ out' = o \o <<"LOG_HATA">>
    /\ pc' = "exit"
    /\ state' = "-"
    /\ UNCHANGED <<last_key, said_initial, last_snap>>

\* except Exception as e: log(...), then on to time.sleep(interval)  (lines 446-449)
OnException(o) ==
    /\ out' = o \o <<"LOG_HATA">>
    /\ pc' = "sleep"
    /\ state' = "-"
    /\ UNCHANGED <<last_key, said_initial, last_snap>>

\* faulty variant: automatic mode stays with Selenium once it has escalated
needs_selenium_sticky(a, sn, h) ==
    a.mode = "selenium"
    \/ (a.mode = "auto" /\ (escalated \/ sn = None \/ looks_unreadable(Val(sn), h)))

\* faulty variant: an unreadable snapshot escalates whatever the mode is
needs_selenium_any_mode(a, sn, h) ==
    a.mode = "selenium" \/ sn = None \/ looks_unreadable(Val(sn), h)

\* line 371: the condition of the Selenium branch
needs_selenium(a, sn, h) ==
    a.mode = "selenium"
    \/ (a.mode = "auto" /\ (sn = None \/ looks_unreadable(Val(sn), h)))

\* lines 371-375 after the requests block left sn, h: the Selenium branch is
\* taken up to the call of _make_driver or fetch_selenium, or the cycle reacts to sn
AfterRequests(sn, h) ==
    /\ snap' = sn
    /\ html' = h
    /\ attempts' = 0
    /\ fs' = "-"
    /\ UNCHANGED <<driver, nlive>>
    /\ IF needs_selenium(ns, sn, h)
       THEN /\ escalated' = escalated
            /\ via' = "-"
            /\ out' = Ev(ns.mode = "auto", "LOG_AUTO_SELENIUM")
            /\ pc' = IF driver = "None" THEN "make" ELSE "sel1"
            /\ state' = "-"
            /\ UNCHANGED <<last_key, said_initial, last_snap>>
       ELSE /\ escalated' = escalated
            /\ via' = "requests"
            /\ React(sn, <<>>)

\* lines 360-375: a cycle starts; fetch_requests returns or raises
FetchRequests ==
    /\ pc = "top"
    /\ cycle < MaxCycles
    /\ ns.mode \in {"auto", "requests"}
    /\ cycle' = cycle + 1
    /\ \/ \E r \in RequestsReads :
            /\ light' = Some(r)
            /\ AfterRequests(Some(r.snap), r.html)
       \/ /\ light' = None
          /\ snap' = None
          /\ html' = {}
          /\ via' = "-"
          /\ attempts' = 0
          /\ fs' = "-"
          /\ OnException(<<>>)
          /\ UNCHANGED <<driver, nlive, escalated>>
       \/ \* KeyboardInterrupt in fetch_requests (lines 443-445)
          /\ light' = None
          /\ snap' = None
          /\ html' = {}
          /\ via' = "-"
          /\ state' = "-"
          /\ out' = <<"LOG_CTRL_C">>
          /\ pc' = "exit"
          /\ attempts' = 0
          /\ fs' = "-"
          /\ UNCHANGED <<driver, nlive, escalated, last_key, said_initial, last_snap>>
    /\ UNCHANGED <<call, ns>>

\* lines 360-375 in selenium mode: no requests fetch
SkipRequests ==
    /\ pc = "top"
    /\ cycle < MaxCycles
    /\ ns.mode = "selenium"
    /\ cycle' = cycle + 1
    /\ light' = None
    /\ AfterRequests(None, {})
    /\ UNCHANGED <<call, ns>>

\* line 375: _make_driver returns or raises
MakeDriver ==
    /\ pc = "make"
    /\ \/ /\ driver' = "open"
          /\ nlive' = nlive + 1
          /\ pc' = "sel1"
          /\ UNCHANGED <<out, last_key, said_initial, state, last_snap>>
       \/ /\ OnException(out)
          /\ UNCHANGED <<driver, nlive>>
    /\ UNCHANGED <<call, ns, snap, html, cycle, via, light, escalated, attempts, fs>>

\* lines 378 / 387 returned r = (snap, html): lines 391-393 warn, then react
SeleniumRead(r) ==
    /\ fs' = IF r.poll = "ok" THEN "returned" ELSE "returned after poll timeout"
    /\ snap' = Some(r.snap)
    /\ html' = r.html
    /\ via' = "selenium"
    /\ escalated' = (escalated \/ ns.mode = "auto")
    /\ React(Some(r.snap),
             out \o Ev(looks_unreadable(r.snap, r.html) /\ ns.debug, "LOG_UYARI"))

\* faulty variant: every exception of fetch_selenium replaces the driver and retries
Selenium_retry_any_error ==
    /\ pc = "sel1"
    /\ attempts' = attempts + 1
    /\ \/ /\ driver = "open"
          /\ \E r \in SeleniumReads : SeleniumRead(r)
          /\ UNCHANGED <<driver, nlive>>
       \/ \E e \in {"invalid session id", "ready-state timeout", "error"} :
            /\ fs' = e
            /\ driver' = "quit"
            /\ nlive' = IF driver = "open" THEN nlive - 1 ELSE nlive
            /\ pc' = "remake"
            /\ UNCHANGED <<snap, html, via, out, last_key, said_initial, state,
                           last_snap, escalated>>
    /\ UNCHANGED <<call, ns, cycle, light>>

\* line 378: the first fetch_selenium of the cycle returns or raises
Selenium ==
    /\ pc = "sel1"
    /\ attempts' = attempts + 1
    /\ \/ /\ driver = "open"
          /\ \E r \in SeleniumReads : SeleniumRead(r)
          /\ UNCHANGED <<driver, nlive>>
       \/ \* "invalid session id" (lines 381-385): the driver is quit
          /\ fs' = "invalid session id"
          /\ driver' = "quit"
          /\ nlive' = IF driver = "open" THEN nlive - 1 ELSE nlive
          /\ pc' = "remake"
          /\ UNCHANGED <<snap, html, via, out, last_key, said_initial, state, last_snap,
                         escalated>>
       \/ \* the wait of line 226 times out: TimeoutException, re-raised at line 389
          /\ driver = "open"
          /\ fs' = "ready-state timeout"
          /\ OnException(out)
          /\ UNCHANGED <<driver, nlive, snap, html, via, escalated>>
       \/ \* any other exception (line 389)
          /\ fs' = "error"
          /\ OnException(out)
          /\ UNCHANGED <<driver, nlive, snap, html, via, escalated>>
    /\ UNCHANGED <<call, ns, cycle, light>>

\* line 386: _make_driver returns or raises
RemakeDriver ==
    /\ pc = "remake"
    /\ \/ /\ driver' = "open"
          /\ nlive' = nlive + 1
          /\ pc' = "sel2"
          /\ UNCHANGED <<out, last_key, said_initial, state, last_snap>>
       \/ /\ OnException(out)
          /\ UNCHANGED <<driver, nlive>>
    /\ UNCHANGED <<call, ns, snap, html, cycle, via, light, escalated, attempts, fs>>

\* line 387: the retry with the new driver returns or raises; the handler of
\* line 379 is not in force any more, whatever is raised reaches line 446
SeleniumRetry ==
    /\ pc = "sel2"
    /\ attempts' = attempts + 1
    /\ \/ \E r \in SeleniumReads : SeleniumRead(r)
       \/ \E e \in {"invalid session id", "ready-state timeout", "error"} :
            /\ fs' = e
            /\ OnException(out)
            /\ UNCHANGED <<snap, html, via, escalated>>
    /\ UNCHANGED <<call, ns, driver, nlive, cycle, light>>

\* line 449 returned
Sleep ==
    /\ pc = "sleep"
    /\ pc' = "top"
    /\ UNCHANGED <<call, ns, driver, nlive, last_key, said_initial, snap, html, cycle, out,
                   state, via, light, escalated, last_snap, attempts, fs>>

\* lines 443-445: KeyboardInterrupt in _make_driver or fetch_selenium
InterruptInCycle ==
    /\ pc \in {"make", "sel1", "remake", "sel2"}
    /\ out' = out \o <<"LOG_CTRL_C">>
    /\ pc' = "exit"
    /\ UNCHANGED <<call, ns, driver, nlive, last_key, said_initial, snap, html, cycle,
                   state, via, light, escalated, last_snap, attempts, fs>>

\* KeyboardInterrupt in time.sleep of line 449, which no try block encloses:
\* it leaves main() through the raise, lines 451-457 do not run
InterruptInSleep ==
    /\ pc = "sleep"
    /\ pc' = "crashed"
    /\ UNCHANGED <<call, ns, driver, nlive, last_key, said_initial, snap, html, cycle, out,
                   state, via, light, escalated, last_snap, attempts, fs>>

\* lines 451-457
Teardown ==
    /\ pc = "exit"
    /\ pc' = "done"
    /\ driver' = IF driver = "None" THEN "None" ELSE "quit"
    /\ nlive' = IF driver = "open" THEN nlive - 1 ELSE nlive
    /\ UNCHANGED <<call, ns, last_key, said_initial, snap, html, cycle, out, state, via,
                   light, escalated, last_snap, attempts, fs>>

Next ==
    \/ FetchRequests
    \/ SkipRequests
    \/ MakeDriver
    \/ Selenium
    \/ RemakeDriver
    \/ SeleniumRetry
    \/ Sleep
    \/ InterruptInCycle
    \/ InterruptInSleep
    \/ Teardown

Spec == Init /\ [][Next]_vars

(***************************************************************************)
(* The pure functions on their own: SpecFn calls key, classify,            *)
(* looks_unreadable and should_stop on arguments drawn from the sets below.*)
(***************************************************************************)
MaxStep == 5

T_yolda_lower == <<"y","o","l","d","a">>
T_Teslim_2sp == <<"T","e","s","l","i","m"," "," ","E","d","i","l","d","i">>
T_TESLIM_TR == <<"T","E","S","L","I.","M"," ","E","D","I.","L","D","I.">>
T_Teslim_only == <<"T","e","s","l","i","m">>
T_Varis_Teslim == T_Varis \o <<" ">> \o T_Teslim
T_Transfer_Varis ==
    <<"T","r","a","n","s","f","e","r"," ","M","e","r","k","e","z","i","n","d","e"," ">>
    \o T_Varis
T_TASIMA_TR == <<"T","A","S,","I","M","A">>
T_Sevk == <<"S","e","v","k"," ","e","d","i","l","d","i">>

FnStatuses ==
    { <<>>, T_Stars, <<" ">>, T_Yolda, T_yolda_lower, T_Varis, T_Teslim, T_Teslim_2sp,
      T_TESLIM_TR, T_Teslim_only, T_Varis_Teslim, T_Transfer_Varis, T_TASIMA_TR,
      T_Sevk, T_Hazir, <<"a">>, <<"a","1">>, <<"a","|">>, <<"a","|","1">>,
      <<"|","N","F","1">>, <<"1","|">> }

FnSteps == {None} \cup { Some(n) : n \in (0 - 1)..MaxStep } \cup {Some(10), Some(11)}

FnSnapshots ==
    { Snapshot(t, st, nf) : t \in FnStatuses, st \in FnSteps, nf \in BOOLEAN }

FnStates == {"YOLDA", "VARDI", "TESLIM", "NOT_FOUND", "UNKNOWN"}

InitFn ==
    /\ ns = [mode |-> "auto", target |-> "VARDI", stop |-> FALSE, tts |-> FALSE,
             mp3 |-> TRUE, debug |-> FALSE]
    /\ driver = "None"
    /\ nlive = 0
    /\ last_key = None
    /\ said_initial = FALSE
    /\ snap = None
    /\ html = {}
    /\ pc = "top"
    /\ cycle = 0
    /\ out = <<>>
    /\ state = "-"
    /\ via = "-"
    /\ light = None
    /\ escalated = FALSE
    /\ last_snap = None
    /\ attempts = 0
    /\ fs = "-"
    /\ call = [fn |-> "-"]

main_vars == <<ns, driver, nlive, last_key, said_initial, snap, html, pc, cycle, out,
               state, via, light, escalated, last_snap, attempts, fs>>

CallKey ==
    /\ call.fn = "-"
    /\ \E a \in FnSnapshots, b \in FnSnapshots :
         call' = [fn |-> "key", a |-> a, b |-> b, ka |-> key(a), kb |-> key(b)]
    /\ UNCHANGED main_vars

CallClassify ==
    /\ call.fn = "-"
    /\ \E a \in FnSnapshots : call' = [fn |-> "classify", a |-> a, ret |-> classify(a)]
    /\ UNCHANGED main_vars

CallLooksUnreadable ==
    /\ call.fn = "-"
    /\ \E a \in FnSnapshots, h \in SUBSET {"four-pack", "shipmentStatus"} :
         call' = [fn |-> "looks_unreadable", a |-> a, html |-> h,
                  ret |-> looks_unreadable(a, h)]
    /\ UNCHANGED main_vars

CallShouldStop ==
    /\ call.fn = "-"
    /\ \E c \in FnStates, t \in Targets :
         call' = [fn |-> "should_stop", current |-> c, target |-> t,
                  ret |-> should_stop(c, t)]
    /\ UNCHANGED main_vars

NextFn ==
    \/ CallKey
    \/ CallClassify
    \/ CallLooksUnreadable
    \/ CallShouldStop

SpecFn == InitFn /\ [][NextFn]_vars

(***************************************************************************)
(* Properties.                                                             *)
(***************************************************************************)
Has(o, e) == \E i \in 1..Len(o) : o[i] = e

\* the cycle has started an audio or a speech task
SideEffect(o) == \E i \in 1..Len(o) : o[i] \in {"MP3", "SAY_teslim", "SAY_vardi", "SAY_yolda"}

\* the loop was left by break
Stopped == pc \in {"exit", "done"}

\* the stop condition of the specification, section 4.6a
StopCondition(current, target) ==
    CASE target = "YOLDA" -> FALSE
      [] target = "TESLIM" -> current = "TESLIM"
      [] target = "VARDI" -> current \in {"VARDI", "TESLIM"}

\* C1: in a cycle whose accepted snapshot is not-found the loop stops in that
\* cycle, whatever the target and the stop flag; the cycle starts no audio and no
\* speech, and its key is not recorded (in the first cycle last_key stays None).
C1_NotFoundStops ==
    (state # "-" /\ Val(snap).not_found) =>
        /\ Stopped
        /\ Has(out, "LOG_NOT_FOUND")
        /\ ~SideEffect(out)
        /\ last_key # Some(key(Val(snap)))
        /\ (last_snap = None => last_key = None)

\* C1 witness: a first cycle that is not-found, stop flag off, target YOLDA
C1_Witness ==
    /\ state = "NOT_FOUND" /\ cycle = 1 /\ pc = "exit"
    /\ ~ns.stop /\ ns.target = "YOLDA" /\ last_key = None

\* C2: should_stop(current, target) is never true for target YOLDA, true iff
\* current is TESLIM for target TESLIM, true iff current is VARDI or TESLIM for
\* target VARDI, for every canonical current state.
C2_ShouldStopTable ==
    call.fn = "should_stop" =>
        /\ (call.target = "YOLDA" => call.ret = FALSE)
        /\ (call.target = "TESLIM" => (call.ret <=> call.current = "TESLIM"))
        /\ (call.target = "VARDI" => (call.ret <=> call.current \in {"VARDI", "TESLIM"}))

\* C2 witness: target VARDI is satisfied by TESLIM
C2_Witness ==
    /\ call.fn = "should_stop" /\ call.target = "VARDI"
    /\ call.current = "TESLIM" /\ call.ret = TRUE

\* C3: with the stop flag on, a cycle that reacts to a snapshot that is not
\* not-found stops the loop iff its classified state satisfies the stop condition
\* for the target: the loop stops at the first such cycle and at none before.
C3_StopsAtFirstHit ==
    (ns.stop /\ state \notin {"-", "NOT_FOUND"}) =>
        (Stopped <=> StopCondition(state, ns.target))

\* C3 witness: target VARDI, the loop stops in the third cycle on VARDI
C3_Witness ==
    /\ ns.stop /\ ns.target = "VARDI" /\ cycle = 3 /\ state = "VARDI"
    /\ pc = "exit" /\ Has(out, "LOG_HEDEFE_ULASTI")

\* the step reacts to a snapshot (lines 400-441 ran): snap' is the cycle's snapshot
Reacts == state' # "-" /\ (cycle' # cycle \/ state = "-")

\* C4: when the loop reacts to the snapshot it reacted to last, the cycle only
\* logs "same": it starts no audio and no speech and last_key keeps its value;
\* when it reacts to a snapshot that is new (the first one, or one that differs
\* from the last), the cycle logs exactly one of "first state" / "state changed".
\* So the same snapshot twice in a row gives one such emission, on the first.
C4_SameSnapshotTwice ==
    [][ Reacts =>
          /\ (last_snap # None /\ snap' = last_snap) =>
                /\ Has(out', "LOG_AYNI")
                /\ ~Has(out', "LOG_DEGISTI") /\ ~Has(out', "LOG_ILK")
                /\ ~SideEffect(out')
                /\ last_key' = last_key
                /\ pc' = "sleep"
          /\ (snap' # last_snap /\ ~Val(snap').not_found) =>
                /\ ~Has(out', "LOG_AYNI")
                /\ Has(out', "LOG_DEGISTI") # Has(out', "LOG_ILK")
                /\ Has(out', "LOG_ILK") = (last_snap = None)
                /\ last_snap' = snap'
      ]_vars

\* C4 witness: a cycle reacted to the snapshot of the cycle before and logged "same"
C4_Witness ==
    /\ cycle >= 2 /\ pc = "sleep" /\ Has(out, "LOG_AYNI")
    /\ last_snap = snap /\ ns.mp3 /\ ns.tts /\ state = "TESLIM" /\ ~ns.stop

\* C5: when main() is left (the loop ended by a stop or by an interrupt, in a
\* cycle or in the sleep between cycles), no browser session is still held open.
C5_SessionClosedOnEveryExit ==
    pc \in {"done", "crashed"} => (driver # "open" /\ nlive = 0)

\* the step is the except-Exception handler of a cycle
ErrorStep == out' # out /\ out' # <<>> /\ out'[Len(out')] = "LOG_HATA"

\* C6: a cycle that fails with an exception leaves last_key and said_initial as
\* they were (every step of a cycle that reacts to no snapshot does), starts no
\* audio and no speech, does not leave the loop and goes on to the sleep of line
\* 449; failing in the first cycle, the loop still has no baseline.
C6_ErrorKeepsState ==
    [][ /\ ErrorStep =>
            /\ pc' = "sleep"
            /\ state' = "-"
            /\ ~SideEffect(out')
            /\ last_key' = last_key
            /\ said_initial' = said_initial
        /\ state' = "-" =>
            (last_key' = last_key /\ said_initial' = said_initial)
      ]_vars

\* C6 witness: fetch_selenium failed in a later cycle, the baseline is still held
C6_Witness ==
    /\ cycle >= 2 /\ pc = "sleep" /\ Has(out, "LOG_HATA") /\ via = "-"
    /\ driver = "open" /\ last_key # None /\ said_initial

\* the phrases a status text of FnStatuses holds once normalized, read off the texts
DeliveredTexts == {T_Teslim, T_Teslim_2sp, T_TESLIM_TR, T_Varis_Teslim}
ArrivedTexts == {T_Varis, T_Varis_Teslim, T_Transfer_Varis}
TransitTexts == {T_Yolda, T_yolda_lower, T_Transfer_Varis, T_TASIMA_TR, T_Sevk}

\* the rule order of the specification, section 4.4
ClassifyRule(sn) ==
    IF sn.not_found THEN "NOT_FOUND"
    ELSE IF sn.status \in DeliveredTexts THEN "TESLIM"
    ELSE IF sn.status \in ArrivedTexts THEN "VARDI"
    ELSE IF sn.status \in TransitTexts THEN "YOLDA"
    ELSE IF sn.step = None THEN "UNKNOWN"
    ELSE IF Val(sn.step) >= 4 THEN "TESLIM"
    ELSE IF Val(sn.step) = 3 THEN "VARDI"
    ELSE IF Val(sn.step) = 2 THEN "YOLDA"
    ELSE "UNKNOWN"

\* C7: classify returns the result of the first matching rule: not_found, then a
\* delivered phrase, an arrived phrase, a transit phrase in the normalized status,
\* then step >= 4, step = 3, step = 2, else UNKNOWN.
C7_ClassifyOrder ==
    call.fn = "classify" => call.ret = ClassifyRule(call.a)

\* C7 witness: "Teslim Edildi" with step 2 is TESLIM (text beats step)
C7_Witness ==
    /\ call.fn = "classify" /\ call.a = Snapshot(T_Teslim, Some(2), FALSE)
    /\ call.ret = "TESLIM"

StarsSnapshot == Snapshot(T_Stars, None, FALSE)

\* C8 as stated: the placeholder snapshot is unreadable over a markup without
\* both markers and readable over a markup that holds the step-container marker.
C8_PlaceholderFollowsMarkup ==
    (call.fn = "looks_unreadable" /\ call.a = StarsSnapshot) =>
        /\ (call.html = {} => call.ret = TRUE)
        /\ ("four-pack" \in call.html => call.ret = FALSE)

\* C8 amended: the placeholder snapshot is unreadable over every markup, with
\* or without the markers.
C8_PlaceholderUnreadable ==
    (call.fn = "looks_unreadable" /\ call.a = StarsSnapshot) => call.ret = TRUE

\* C8 witness: the placeholder snapshot over a markup with the step container
C8_Witness ==
    /\ call.fn = "looks_unreadable" /\ call.a = StarsSnapshot
    /\ call.html = {"four-pack"} /\ call.ret = TRUE

\* C10: two snapshots have the same key iff they have the same status, step and
\* not_found.
C10_KeyInjective ==
    call.fn = "key" => ((call.ka = call.kb) <=> (call.a = call.b))

\* C10 witness: status "a|1" without step against status "a" with step 1
C10_Witness ==
    /\ call.fn = "key"
    /\ call.a = Snapshot(<<"a","|","1">>, None, FALSE)
    /\ call.b = Snapshot(<<"a">>, Some(1), FALSE)
    /\ call.ka # call.kb

\* C9 as stated: in automatic mode, once a cycle has escalated and taken its
\* snapshot from Selenium, no later cycle reacts to a snapshot that came from the
\* requests fetch.
C9_EscalationSticky ==
    (ns.mode = "auto" /\ escalated) => via # "requests"

\* C9 amended: in automatic mode every cycle that reacts to a snapshot has read
\* the lightweight snapshot first, and its snapshot came from Selenium iff that
\* cycle's own lightweight snapshot looks unreadable, whatever earlier cycles did.
C9_EscalationPerCycle ==
    (ns.mode = "auto" /\ state # "-") =>
        /\ light # None
        /\ via \in {"requests", "selenium"}
        /\ (via = "selenium") <=> looks_unreadable(Val(light).snap, Val(light).html)
        /\ (via = "requests") => snap = Some(Val(light).snap)

\* C9 witness: after an escalation a later cycle reacts to its requests snapshot
C9_Witness ==
    /\ ns.mode = "auto" /\ escalated /\ cycle >= 2 /\ driver = "open"
    /\ state # "-" /\ via = "requests"

\* the cycle has called _make_driver or fetch_selenium, or is about to
InSeleniumBranch(p) == p \in {"make", "sel1", "remake", "sel2"}

\* C11: the mode gates extraction in every cycle.  In requests mode the cycle
\* never enters the Selenium branch: fetch_selenium is never called and no driver
\* is ever created, also when the snapshot looks unreadable.  In selenium mode
\* no cycle does the requests fetch: every cycle goes straight to the Selenium
\* branch.  In auto mode a cycle that has its requests snapshot enters the
\* Selenium branch iff looks_unreadable holds of that snapshot.
C11_ModeGatesExtraction ==
    /\ [](ns.mode = "requests" =>
            /\ driver = "None" /\ nlive = 0 /\ attempts = 0 /\ fs = "-"
            /\ ~InSeleniumBranch(pc) /\ via # "selenium")
    /\ [](ns.mode = "selenium" => (light = None /\ via # "requests"))
    /\ [][ (ns.mode = "selenium" /\ cycle' # cycle) =>
              (InSeleniumBranch(pc') /\ out' = <<>>) ]_vars
    /\ [][ (ns.mode = "auto" /\ cycle' # cycle /\ light' # None) =>
              (InSeleniumBranch(pc')
                 <=> looks_unreadable(Val(light').snap, Val(light').html)) ]_vars
    /\ [](ns.mode = "auto" /\ attempts > 0 =>
            (light # None /\ looks_unreadable(Val(light).snap, Val(light).html)))

\* C11 witness: requests mode reacted to a snapshot that looks unreadable
C11_Witness ==
    /\ ns.mode = "requests" /\ state # "-" /\ via = "requests"
    /\ looks_unreadable(Val(snap), html) /\ driver = "None"

\* the word of the first-state announcement
InitialWord(st) ==
    CASE st = "TESLIM" -> "SAY_teslim"
      [] st = "VARDI" -> "SAY_vardi"
      [] OTHER -> "SAY_yolda"

\* the word spoken for a reached or changed state
StateWord(st) ==
    CASE st = "TESLIM" -> "SAY_teslim"
      [] st = "VARDI" -> "SAY_vardi"

\* the step reacts to the first accepted snapshot, which is not not-found
FirstReact == Reacts /\ last_key = None /\ state' # "NOT_FOUND"

\* C12: the first cycle that reacts to a snapshot that is not not-found records
\* its key in last_key and logs the first state, and speaks it when speech is on;
\* if the stop flag is on and the stop condition holds, the alert is played (when
\* an mp3 is configured), the state is spoken (when speech is on) and the loop
\* is left; otherwise the loop goes on without an alert.  The first state is
\* announced at most once: only while last_key is None, which it never is again.
C12_FirstCycle ==
    [][ /\ FirstReact =>
            /\ last_key' = Some(key(Val(snap')))
            /\ Has(out', "LOG_ILK")
            /\ Has(out', InitialWord(state')) <=> ns.tts
            /\ said_initial' = ns.tts
            /\ IF ns.stop /\ StopCondition(state', ns.target)
               THEN /\ pc' = "exit"
                    /\ Has(out', "MP3") <=> ns.mp3
                    /\ ns.tts => Has(out', StateWord(state'))
                    /\ Has(out', "LOG_HEDEF_ZATEN")
               ELSE /\ pc' = "sleep"
                    /\ ~Has(out', "MP3")
                    /\ ~Has(out', "LOG_HEDEF_ZATEN")
        /\ (Reacts /\ Has(out', "LOG_ILK")) => (last_key = None /\ ~said_initial)
        /\ last_key # None => last_key' # None
        /\ said_initial => said_initial'
      ]_vars

\* C12 witness: the first snapshot already meets the target: alert, speech, stop
C12_Witness ==
    /\ cycle = 1 /\ pc = "exit" /\ state = "VARDI" /\ ns.target = "VARDI"
    /\ ns.mp3 /\ ns.tts /\ Has(out, "MP3") /\ Has(out, "LOG_HEDEF_ZATEN")
    /\ last_key = Some(key(Val(snap)))

\* the step reacts to a snapshot whose key differs from last_key
ChangeReact ==
    /\ Reacts /\ last_key # None /\ state' # "NOT_FOUND"
    /\ last_key # Some(key(Val(snap')))

\* C13: a later cycle whose snapshot key differs from last_key sets last_key to
\* the new key, plays the alert iff an mp3 is configured, whatever the state,
\* speaks iff speech is on and the state is VARDI or TESLIM (never for YOLDA or
\* UNKNOWN), and evaluates the stop condition only after that: a stop is the
\* last thing the cycle logs and takes none of these away.
C13_ChangeCycle ==
    [][ ChangeReact =>
          /\ last_key' = Some(key(Val(snap')))
          /\ Has(out', "LOG_DEGISTI")
          /\ Has(out', "MP3") <=> ns.mp3
          /\ ~Has(out', "SAY_yolda")
          /\ Has(out', "SAY_vardi") <=> (ns.tts /\ state' = "VARDI")
          /\ Has(out', "SAY_teslim") <=> (ns.tts /\ state' = "TESLIM")
          /\ (pc' = "exit") <=> (ns.stop /\ StopCondition(state', ns.target))
          /\ (pc' = "exit") <=> (out'[Len(out')] = "LOG_HEDEFE_ULASTI")
          /\ \A i \in 1..(Len(out') - 1) : out'[i] # "LOG_HEDEFE_ULASTI"
      ]_vars

\* C13 witness: a change to YOLDA with mp3 and speech on: alert, no speech
C13_Witness ==
    /\ cycle >= 2 /\ Has(out, "LOG_DEGISTI") /\ state = "YOLDA"
    /\ ns.mp3 /\ ns.tts /\ Has(out, "MP3") /\ ~Has(out, "SAY_vardi")
    /\ ~Has(out, "SAY_teslim") /\ ~Has(out, "SAY_yolda")

\* the step is fetch_selenium returning a snapshot that still looks unreadable
StillUnreadable ==
    /\ attempts' = attempts + 1 /\ via' = "selenium"
    /\ looks_unreadable(Val(snap'), html')

\* C14: when fetch_selenium returns a snapshot that still looks unreadable, the
\* cycle only warns: last_key keeps its value, and the cycle logs no first state
\* and no change and starts no audio and no speech for that snapshot.
C14_UnreadableOnlyWarns ==
    [][ StillUnreadable =>
          /\ Has(out', "LOG_UYARI")
          /\ last_key' = last_key
          /\ ~Has(out', "LOG_ILK") /\ ~Has(out', "LOG_DEGISTI")
          /\ ~SideEffect(out')
      ]_vars

\* C15: a timeout of the ready-state wait of fetch_selenium is not an error of
\* the cycle: like a timeout of the readiness poll, it is followed by the final
\* read, and the cycle has a snapshot from Selenium and logs no error.
C15_WaitTimeoutsNonFatal ==
    fs \in {"ready-state timeout", "returned after poll timeout"} =>
        (via = "selenium" /\ snap # None /\ ~Has(out, "LOG_HATA"))

Speech == {"SAY_teslim", "SAY_vardi", "SAY_yolda"}

\* the speech tasks among o[lo..hi]
SpeechIn(o, lo, hi) == { j \in lo..hi : o[j] \in Speech }

\* C16 as stated: in every cycle the alert is started before every speech task
\* of the cycle.
C16_AlertBeforeAnySpeech ==
    \A i, j \in 1..Len(out) : (out[i] = "MP3" /\ out[j] \in Speech) => i < j

\* C16 amended: the tasks of a cycle are started in a fixed order.  In a change
\* cycle the alert comes before the speech.  In a first cycle that already meets
\* the target the first-state speech comes first, then the alert, then the
\* speech for the reached state: one speech task before the alert and one after
\* it when speech is on.  No cycle plays the alert twice.
C16_FixedOrder ==
    \A i \in 1..Len(out) : out[i] = "MP3" =>
        /\ \A k \in 1..Len(out) : out[k] = "MP3" => k = i
        /\ Has(out, "LOG_DEGISTI") => SpeechIn(out, 1, i - 1) = {}
        /\ Has(out, "LOG_ILK") =>
              /\ SpeechIn(out, 1, i - 1) = (IF ns.tts THEN {i - 1} ELSE {})
              /\ SpeechIn(out, i + 1, Len(out)) = (IF ns.tts THEN {i + 1} ELSE {})
              /\ ns.tts => (out[i - 1] = InitialWord(state) /\ out[i + 1] = StateWord(state))

\* C16 witness: a first cycle that meets the target with mp3 and speech on
C16_Witness ==
    /\ cycle = 1 /\ state = "TESLIM"
    /\ out = <<"LOG_ILK", "SAY_teslim", "MP3", "SAY_teslim", "LOG_HEDEF_ZATEN">>

\* the status is empty or made of "*" only
Placeholder(t) == \A i \in 1..Len(t) : t[i] = "*"

\* the rule of the specification, section 4.5
GuardRule(sn, h) ==
    /\ ~sn.not_found
    /\ \/ Placeholder(sn.status)
       \/ /\ sn.step \in {None, Some(0)}
          /\ "shipmentStatus" \notin h /\ "four-pack" \notin h

\* C17: for every snapshot (its status stripped, as both extractors leave it)
\* and every markup, looks_unreadable is true iff not_found is false and either
\* the status is empty or all "*", or the step is None or 0 and the markup holds
\* neither marker.  So a not-found snapshot is never unreadable, and neither is
\* a snapshot with a non-placeholder status and a step other than 0.
C17_GuardRule ==
    (call.fn = "looks_unreadable" /\ call.a.status = Strip(call.a.status)) =>
        /\ call.ret <=> GuardRule(call.a, call.html)
        /\ call.a.not_found => ~call.ret
        /\ (~Placeholder(call.a.status) /\ call.a.step \notin {None, Some(0)}) => ~call.ret

\* C17 witness: a not-found snapshot with an empty status over a bare markup
C17_Witness ==
    /\ call.fn = "looks_unreadable" /\ call.a = Snapshot(<<>>, None, TRUE)
    /\ call.html = {} /\ call.ret = FALSE

\* C18: at most one session is live, and but for the moment between the quit of
\* line 383 and the _make_driver of line 386 the driver variable of a running
\* main() holds the live session or None.
C18_HandleIsLiveOrNone ==
    /\ nlive <= 1
    /\ (driver = "open") <=> (nlive = 1)
    /\ pc \notin {"remake", "done"} => driver \in {"None", "open"}

\* the step is a call of fetch_selenium that raises e
Raises(e) == attempts' = attempts + 1 /\ fs' = e

\* C19: when the first fetch_selenium of a cycle fails with "invalid session
\* id", the driver is quit, a new one is made and fetch_selenium is called once
\* more, and never a third time in the cycle: whatever the second call raises is
\* an error of the cycle.  Any other exception of fetch_selenium is an error of
\* the cycle at once: the driver is neither quit nor replaced and nothing is
\* retried.
C19_RetryOnce ==
    /\ [](attempts <= 2)
    /\ [](pc = "remake" => (attempts = 1 /\ fs = "invalid session id" /\ driver = "quit"))
    /\ [](pc = "sel2" => (attempts = 1 /\ fs = "invalid session id" /\ driver = "open"))
    /\ [][ /\ (Raises("invalid session id") /\ attempts = 0) =>
                (pc' = "remake" /\ driver' = "quit" /\ nlive' = 0 /\ out' = out)
           /\ (pc = "remake" /\ pc' \notin {"remake", "exit"}) =>
                \/ pc' = "sel2" /\ nlive' = 1
                \/ ErrorStep /\ pc' = "sleep"
           /\ (attempts' = attempts + 1 /\ attempts = 1) => pc' \in {"sleep", "exit"}
           /\ (Raises("invalid session id") /\ attempts = 1) =>
                (ErrorStep /\ pc' = "sleep" /\ driver' = driver /\ nlive' = nlive)
           /\ (Raises("ready-state timeout") \/ Raises("error")) =>
                (ErrorStep /\ pc' = "sleep" /\ driver' = driver /\ nlive' = nlive)
         ]_vars

\* C19 witness: the retry with the new driver returned a snapshot
C19_Witness ==
    /\ attempts = 2 /\ via = "selenium" /\ state # "-" /\ driver = "open"
    /\ fs = "returned" /\ nlive = 1

\* C20: after a session fault that the cycle did not recover from (the retry
\* failed with "invalid session id" too, or the new driver could not be made) no
\* handle is held when the cycle is over, so that the next cycle that needs
\* Selenium makes a new driver before it extracts.
C20_NoHandleAfterFault ==
    (pc \in {"sleep", "top"} /\ fs = "invalid session id") => driver = "None"

====
